---- MODULE Spec2Model ----
(***************************************************************************)
(* Model of gb_baseline/baseline.ipynb: the CountAggregator transformer    *)
(* (chunked one-hot encoding + per-id count aggregation, fit_transform /   *)
(* transform) and the K-fold cross-validation loop that fills oof,         *)
(* train_preds and models.                                                 *)
(*                                                                         *)
(* Data frames are modelled as [cols, rows]: cols is the ordered list of   *)
(* column labels, rows the ordered list of rows, each row a function from  *)
(* the column labels to the cell values.  The label pandas.get_dummies     *)
(* gives to the indicator of value v of column c, f"{c}_{v}", is the pair  *)
(* <<c, v>>; the label "id" is IdCol.  A missing cell (NaN) is NaN.        *)
(***************************************************************************)
EXTENDS Integers, Sequences, FiniteSets, TLC

VARIABLES
    storage,           \* the dataset directories: partition p of directory d is storage[d][p + 1]
    encoded_features,  \* CountAggregator.encoded_features: None or a list of labels
    pc,                \* position of the aggregator's caller: idle, loop, returned, raised
    call,              \* arguments and locals of the running / last __transform_data call
    result,            \* the frame the last call returned (when pc = "returned")
    error,             \* the exception the last call raised (when pc = "raised")
    prev,              \* record of the previous returned transform call (history)
    cvpc,              \* position in the cross-validation cell
    n_samples,         \* len(train_data_target)
    perm,              \* the shuffled indices KFold draws from its random state
    fold_,             \* number of the fold in training (1-based, enumerate(..., 1))
    oof,               \* oof[i]: out-of-fold prediction of row i
    train_preds,       \* train_preds[i]: accumulated training prediction of row i
    models,            \* the list of fitted fold models
    oof_writes         \* history: how many times oof[i] was assigned

aggVars == <<storage, encoded_features, pc, call, result, error>>
cvVars == <<cvpc, n_samples, perm, fold_, oof, train_preds, models, oof_writes>>
vars == <<storage, encoded_features, pc, call, result, error, prev,
          cvpc, n_samples, perm, fold_, oof, train_preds, models, oof_writes>>

----------------------------------------------------------------------------
(* Bounds of the model *)

\* largest num_parts_to_preprocess_at_once a caller passes
MaxChunk == 2
\* largest num_parts_total a caller passes
MaxTotal == 3
\* the partition files of the dataset directory (0-based, as the reader counts them)
Parts == {0, 1}
NumParts == Cardinality(Parts)
\* entity ids
Ids == {1, 2, 3}
\* the categorical feature columns of a partition, in frame order
FeatureColumns == <<1, 2>>
\* category values of a feature column
Vals == {1, 2}
\* numbers of rows partition p of the train directory can hold
RowCounts(p) == IF p = 0 THEN 1..2 ELSE 1..1
\* the same for the runs on the train directory alone
TrainRowCounts(p) == 1..2

----------------------------------------------------------------------------
(* Generic helpers *)

Range(s) == {s[i] : i \in DOMAIN s}

Min(S) == CHOOSE x \in S : \A y \in S : x <= y

RECURSIVE SortedList(_)
\* the elements of a finite set of integers in ascending order
SortedList(S) ==
    IF S = {} THEN <<>>
    ELSE <<Min(S)>> \o SortedList(S \ {Min(S)})

RECURSIVE Flatten(_)
\* concatenation of a list of lists
Flatten(ss) ==
    IF ss = <<>> THEN <<>>
    ELSE Head(ss) \o Flatten(Tail(ss))

RECURSIVE SumSeq(_)
SumSeq(s) ==
    IF s = <<>> THEN 0
    ELSE Head(s) + SumSeq(Tail(s))

RECURSIVE AppendNew(_, _)
\* acc followed by the elements of s not yet in it, in order of first appearance
AppendNew(acc, s) ==
    IF s = <<>> THEN acc
    ELSE IF Head(s) \in Range(acc) THEN AppendNew(acc, Tail(s))
    ELSE AppendNew(Append(acc, Head(s)), Tail(s))

RECURSIVE ListRemove(_, _)
\* list.remove(x): the list without the first occurrence of x
ListRemove(s, x) ==
    IF s = <<>> THEN <<>>
    ELSE IF Head(s) = x THEN Tail(s)
    ELSE <<Head(s)>> \o ListRemove(Tail(s), x)

----------------------------------------------------------------------------
(* Values and inputs *)

IdCol == <<0, 0>>
NaN == -1
None == [is_none |-> TRUE, list |-> <<>>]
Some(l) == [is_none |-> FALSE, list |-> l]

NoFrame == [cols |-> <<>>, rows |-> <<>>]
NoPrev == [mode |-> "none", table |-> NoFrame]

\* a history record: its id and its categorical features (the rn column is
\* removed from the feature columns and never selected afterwards)
Records == [id : Ids, f : [DOMAIN FeatureColumns -> Vals]]

RowsOfLength(k) == [1..k -> Records]

IdsOf(rows) == {rows[i].id : i \in DOMAIN rows}

\* all records of an entity lie in one partition
EntityAligned(ds) ==
    \A p, q \in DOMAIN ds : p # q => IdsOf(ds[p]) \cap IdsOf(ds[q]) = {}

\* the datasets whose partition p holds a number of rows in RC(p)
DatasetsOf(RC(_)) ==
    {ds \in [1..NumParts -> UNION {RowsOfLength(k) : k \in UNION {RC(p) : p \in Parts}}] :
        /\ \A p \in Parts : Len(ds[p + 1]) \in RC(p)
        /\ EntityAligned(ds)}

Datasets == DatasetsOf(RowCounts)

\* the dataset directories a caller can name
Paths == {"train", "test"}

RECURSIVE Reverse(_)
Reverse(s) == IF s = <<>> THEN <<>> ELSE Reverse(Tail(s)) \o <<Head(s)>>

\* the two directories: the test directory holds the partitions of the train
\* directory in the opposite order
Directories(ds) == [d \in Paths |-> IF d = "train" THEN ds ELSE Reverse(ds)]

----------------------------------------------------------------------------
(* Chunk reader *)

\* read_parquet_dataset_from_local(path, start_from, num_parts_to_read):
\* the rows of partitions start_from .. start_from + num_parts_to_read - 1,
\* in order; fails when one of them is missing
PartsRequested(start_from, num_parts_to_read) ==
    start_from..(start_from + num_parts_to_read - 1)

ReadFails(ds, start_from, num_parts_to_read) ==
    \E p \in PartsRequested(start_from, num_parts_to_read) : p + 1 \notin DOMAIN ds

read_parquet_dataset_from_local(ds, start_from, num_parts_to_read) ==
    Flatten([k \in 1..num_parts_to_read |-> ds[start_from + k]])

----------------------------------------------------------------------------
(* CountAggregator.__extract_count_aggregations *)

\* a get_dummies(..., drop_first=True): the first value of each column gets no indicator
ColumnDummies_DropFirst(data_frame, c) ==
    LET vs == SortedList({data_frame[i].f[c] : i \in DOMAIN data_frame})
    IN  [k \in 1..(Len(vs) - 1) |-> <<FeatureColumns[c], vs[k + 1]>>]

\* pd.get_dummies: per feature column, in frame order, one indicator column
\* per distinct value, values in ascending order
ColumnDummies(data_frame, c) ==
    LET vs == SortedList({data_frame[i].f[c] : i \in DOMAIN data_frame})
    IN  [k \in DOMAIN vs |-> <<FeatureColumns[c], vs[k]>>]

get_dummies(data_frame) ==
    Flatten([c \in DOMAIN FeatureColumns |-> ColumnDummies(data_frame, c)])

\* the indicator of label d in row r
Indicator(r, d) == IF r.f[d[1]] = d[2] THEN 1 ELSE 0

\* a groupby("id")[dummy_features].max(): presence instead of count
GroupSum_Max(data_frame, i, d) ==
    IF \E k \in DOMAIN data_frame :
          data_frame[k].id = i /\ Indicator(data_frame[k], d) = 1
    THEN 1 ELSE 0

\* groupby("id")[dummy_features].sum() for one id and one label
GroupSum(data_frame, i, d) ==
    SumSeq([k \in DOMAIN data_frame |->
              IF data_frame[k].id = i THEN Indicator(data_frame[k], d) ELSE 0])

\* an aggregation that keeps one row per record instead of one per id
GroupIds_PerRecord(data_frame) == [k \in DOMAIN data_frame |-> data_frame[k].id]

\* the group keys of groupby("id"): the distinct ids, ascending
GroupIds(data_frame) == SortedList(IdsOf(data_frame))

extract_count_aggregations(data_frame) ==
    LET dummy_features == get_dummies(data_frame)
        ids == GroupIds(data_frame)
        cols == <<IdCol>> \o dummy_features
    IN  [cols |-> cols,
         rows |-> [k \in DOMAIN ids |->
                     [c \in Range(cols) |->
                        IF c = IdCol THEN ids[k]
                        ELSE GroupSum(data_frame, ids[k], c)]]]

----------------------------------------------------------------------------
(* Frame operations used by CountAggregator.__transform_data *)

RECURSIVE UnionCols(_, _)
UnionCols(acc, frames) ==
    IF frames = <<>> THEN acc
    ELSE UnionCols(AppendNew(acc, Head(frames).cols), Tail(frames))

\* pd.concat(frames): the rows of the frames one after another, over the
\* union of their columns in order of first appearance; a cell of a column
\* a frame does not have is NaN
pd_concat(frames) ==
    LET cols == UnionCols(<<>>, frames)
        widen(fr) == [k \in DOMAIN fr.rows |->
                        [c \in Range(cols) |->
                           IF c \in Range(fr.cols) THEN fr.rows[k][c] ELSE NaN]]
    IN  [cols |-> cols,
         rows |-> Flatten([j \in DOMAIN frames |-> widen(frames[j])])]

\* a __transform_data without the fillna
fillna_Skipped(features) == features

\* features.fillna(0, inplace=True)
fillna(features) ==
    [cols |-> features.cols,
     rows |-> [k \in DOMAIN features.rows |->
                 [c \in Range(features.cols) |->
                    IF features.rows[k][c] = NaN THEN 0 ELSE features.rows[k][c]]]]

\* a synthesized column left as missing values instead of zeros
SetColumnZero_NaN(features, col) ==
    [cols |-> IF col \in Range(features.cols) THEN features.cols
              ELSE Append(features.cols, col),
     rows |-> [k \in DOMAIN features.rows |->
                 [c \in Range(features.cols) \cup {col} |->
                    IF c = col THEN NaN ELSE features.rows[k][c]]]]

\* features[col] = 0: overwrite the column, or append it when it is new
SetColumnZero(features, col) ==
    [cols |-> IF col \in Range(features.cols) THEN features.cols
              ELSE Append(features.cols, col),
     rows |-> [k \in DOMAIN features.rows |->
                 [c \in Range(features.cols) \cup {col} |->
                    IF c = col THEN 0 ELSE features.rows[k][c]]]]

RECURSIVE AddMissing(_, _, _)
\* for col in self.encoded_features: if not col in dummy_features: features[col] = 0
AddMissing(features, schema, dummy_features) ==
    IF schema = <<>> THEN features
    ELSE IF Head(schema) \notin Range(dummy_features)
         THEN AddMissing(SetColumnZero(features, Head(schema)), Tail(schema), dummy_features)
         ELSE AddMissing(features, Tail(schema), dummy_features)

\* features[list_of_labels]
Select(features, labels) ==
    [cols |-> labels,
     rows |-> [k \in DOMAIN features.rows |->
                 [c \in Range(labels) |-> features.rows[k][c]]]]

\* the frame after the loop: concat, then fillna
Concatenated(frames) == fillna(pd_concat(frames))

\* dummy_features = list(features.columns.values); dummy_features.remove("id")
DummyFeatures(features) == ListRemove(features.cols, IdCol)

\* a mode branch that stores the observed columns in transform mode too
SchemaAfter_Refit(mode, schema, dummy_features) == Some(dummy_features)

\* a transform that builds its column list in place,
\* self.encoded_features.insert(0, "id"), instead of ["id"] + self.encoded_features
SchemaAfter_InPlace(mode, schema, dummy_features) ==
    IF mode = "fit_transform" THEN Some(dummy_features)
    ELSE Some(<<IdCol>> \o schema.list)

\* the schema after the mode branch
SchemaAfter(mode, schema, dummy_features) ==
    IF mode = "fit_transform" THEN Some(dummy_features) ELSE schema

\* a return of the whole concatenated frame, without the column selection
Returned_Unselected(mode, features, schema) ==
    IF mode = "fit_transform" THEN features
    ELSE AddMissing(features, schema.list, DummyFeatures(features))

\* return features[["id"] + self.encoded_features]
Returned(mode, features, schema) ==
    IF mode = "fit_transform" THEN Select(features, <<IdCol>> \o schema.list)
    ELSE Select(AddMissing(features, schema.list, DummyFeatures(features)),
                <<IdCol>> \o schema.list)

----------------------------------------------------------------------------
(* The aggregator's operations *)

NoCall == [mode |-> "none", path |-> "train", chunk |-> 0, total |-> 0, sink |-> FALSE,
           step |-> 0, frames |-> <<>>, reads |-> <<>>, written |-> <<>>]

\* the aggregator is called from one thread, one call at a time
CanCall == pc = "idle" /\ cvpc = "idle"

\* entry of __transform_data up to the first loop test
Enter(mode, path, chunk, total, sink) ==
    /\ CanCall
    /\ pc' = "loop"
    /\ call' = [mode |-> mode, path |-> path, chunk |-> chunk, total |-> total,
                sink |-> sink, step |-> 0, frames |-> <<>>, reads |-> <<>>,
                written |-> <<>>]
    /\ UNCHANGED <<storage, encoded_features, result, error, prev>>
    /\ UNCHANGED cvVars

\* the calls on either directory
fit_transform ==
    \E path \in Paths, chunk \in 1..MaxChunk, total \in 1..MaxTotal, sink \in BOOLEAN :
        Enter("fit_transform", path, chunk, total, sink)

transform ==
    \E path \in Paths, chunk \in 1..MaxChunk, total \in 1..MaxTotal, sink \in BOOLEAN :
        Enter("transform", path, chunk, total, sink)

\* the calls on the train directory
fit_transform_train ==
    \E chunk \in 1..MaxChunk, total \in 1..MaxTotal, sink \in BOOLEAN :
        Enter("fit_transform", "train", chunk, total, sink)

transform_train ==
    \E chunk \in 1..MaxChunk, total \in 1..MaxTotal, sink \in BOOLEAN :
        Enter("transform", "train", chunk, total, sink)

\* the caller, holding the table a transform call returned, calls transform
\* again with the same arguments; prev remembers the table it holds
transform_again ==
    /\ pc = "returned"
    /\ call.mode = "transform"
    /\ cvpc = "idle"
    /\ pc' = "loop"
    /\ call' = [call EXCEPT !.step = 0, !.frames = <<>>, !.reads = <<>>,
                            !.written = <<>>]
    /\ prev' = [mode |-> "transform", table |-> result]
    /\ result' = NoFrame
    /\ UNCHANGED <<storage, encoded_features, error>>
    /\ UNCHANGED cvVars

\* the caller is done with the table or the exception of the last call
Release ==
    /\ pc \in {"returned", "raised"}
    /\ pc' = "idle"
    /\ call' = NoCall
    /\ result' = NoFrame
    /\ error' = "none"
    /\ prev' = NoPrev
    /\ UNCHANGED <<storage, encoded_features>>
    /\ UNCHANGED cvVars

\* an iteration of the loop that, in fit_transform mode, also extends
\* self.encoded_features with the columns of the batch
Batch_FitsAsItGoes ==
    /\ pc = "loop"
    /\ call.step < call.total
    /\ ~ReadFails(storage[call.path], call.step, call.chunk)
    /\ LET data_frame == read_parquet_dataset_from_local(storage[call.path], call.step, call.chunk)
           features == extract_count_aggregations(data_frame)
       IN  /\ call' = [call EXCEPT
                         !.reads = @ \o SortedList(PartsRequested(call.step, call.chunk)),
                         !.written = IF call.sink THEN Append(@, call.step) ELSE @,
                         !.frames = Append(@, features),
                         !.step = @ + call.chunk]
           /\ encoded_features' =
                 IF call.mode = "fit_transform"
                 THEN Some(DummyFeatures(Concatenated(Append(call.frames, features))))
                 ELSE encoded_features
    /\ UNCHANGED <<storage, pc, result, error, prev>>
    /\ UNCHANGED cvVars

\* an iteration of the loop without its to_parquet: the batch is read,
\* aggregated and appended, no artifact is written
Batch_Unsaved ==
    /\ pc = "loop"
    /\ call.step < call.total
    /\ ~ReadFails(storage[call.path], call.step, call.chunk)
    /\ LET data_frame == read_parquet_dataset_from_local(storage[call.path], call.step, call.chunk)
           features == extract_count_aggregations(data_frame)
       IN  call' = [call EXCEPT
                      !.reads = @ \o SortedList(PartsRequested(call.step, call.chunk)),
                      !.frames = Append(@, features),
                      !.step = @ + call.chunk]
    /\ UNCHANGED <<storage, encoded_features, pc, result, error, prev>>
    /\ UNCHANGED cvVars

\* one iteration of the loop: read the batch, aggregate it, save it, append it
Batch ==
    /\ pc = "loop"
    /\ call.step < call.total
    /\ ~ReadFails(storage[call.path], call.step, call.chunk)
    /\ LET data_frame == read_parquet_dataset_from_local(storage[call.path], call.step, call.chunk)
           features == extract_count_aggregations(data_frame)
       IN  call' = [call EXCEPT
                      !.reads = @ \o SortedList(PartsRequested(call.step, call.chunk)),
                      !.written = IF call.sink THEN Append(@, call.step) ELSE @,
                      !.frames = Append(@, features),
                      !.step = @ + call.chunk]
    /\ UNCHANGED <<storage, encoded_features, pc, result, error, prev>>
    /\ UNCHANGED cvVars

\* the reader raises in an iteration of the loop: the call ends there
BatchFails ==
    /\ pc = "loop"
    /\ call.step < call.total
    /\ ReadFails(storage[call.path], call.step, call.chunk)
    /\ pc' = "raised"
    /\ error' = "IOError"
    /\ UNCHANGED <<storage, encoded_features, call, result, prev>>
    /\ UNCHANGED cvVars

\* the code after the loop, in fit_transform mode or with a fitted aggregator
Finish ==
    /\ pc = "loop"
    /\ call.step >= call.total
    /\ call.mode = "fit_transform" \/ ~encoded_features.is_none
    /\ LET features == Concatenated(call.frames)
           schema == SchemaAfter(call.mode, encoded_features, DummyFeatures(features))
       IN  /\ encoded_features' = schema
           /\ result' = Returned(call.mode, features, schema)
    /\ pc' = "returned"
    /\ UNCHANGED <<storage, call, error, prev>>
    /\ UNCHANGED cvVars

\* the code after the loop in transform mode when encoded_features is None:
\* assert not self.encoded_features is None, "Transformer not fitted"
FinishNotFitted ==
    /\ pc = "loop"
    /\ call.step >= call.total
    /\ call.mode = "transform"
    /\ encoded_features.is_none
    /\ pc' = "raised"
    /\ error' = "NotFitted"
    /\ UNCHANGED <<storage, encoded_features, call, result, prev>>
    /\ UNCHANGED cvVars

----------------------------------------------------------------------------
(* Specification of the aggregator *)

InitCV ==
    /\ cvpc = "idle"
    /\ n_samples = 0
    /\ perm = <<>>
    /\ fold_ = 0
    /\ oof = <<>>
    /\ train_preds = <<>>
    /\ models = <<>>
    /\ oof_writes = <<>>

\* a new aggregator and the two dataset directories
Init ==
    /\ storage \in {Directories(ds) : ds \in Datasets}
    /\ encoded_features = None
    /\ pc = "idle"
    /\ call = NoCall
    /\ result = NoFrame
    /\ error = "none"
    /\ prev = NoPrev
    /\ InitCV

Next ==
    \/ fit_transform
    \/ transform
    \/ transform_again
    \/ Batch
    \/ BatchFails
    \/ Finish
    \/ FinishNotFitted
    \/ Release

Spec == Init /\ [][Next]_vars

\* a new aggregator called on the train directory only, over the larger
\* datasets of TrainRowCounts
InitTrain ==
    /\ storage \in {Directories(ds) : ds \in DatasetsOf(TrainRowCounts)}
    /\ encoded_features = None
    /\ pc = "idle"
    /\ call = NoCall
    /\ result = NoFrame
    /\ error = "none"
    /\ prev = NoPrev
    /\ InitCV

NextTrain ==
    \/ fit_transform_train
    \/ transform_train
    \/ Batch
    \/ BatchFails
    \/ Finish
    \/ FinishNotFitted
    \/ Release

SpecTrain == InitTrain /\ [][NextTrain]_vars

----------------------------------------------------------------------------
(* Cross-validation cell: KFold(n_splits=5, shuffle=True), oof, train_preds, models *)

\* cv = KFold(n_splits=5, random_state=100, shuffle=True)
n_splits == 5
\* largest len(train_data_target) of the model
MaxSamples == 6

Indices(n) == 0..(n - 1)

\* the orders in which the shuffle of KFold can leave arange(n)
RECURSIVE Orders(_)
Orders(S) ==
    IF S = {} THEN {<<>>}
    ELSE UNION {{<<x>> \o p : p \in Orders(S \ {x})} : x \in S}

Shuffles(n) == Orders(Indices(n))

\* KFold: the first n % n_splits folds have n // n_splits + 1 rows, the others n // n_splits
FoldSize(n, k) == (n \div n_splits) + (IF k <= n % n_splits THEN 1 ELSE 0)

RECURSIVE FoldStart(_, _)
\* number of shuffled indices before fold k (k = 1..n_splits)
FoldStart(n, k) ==
    IF k = 1 THEN 0
    ELSE FoldStart(n, k - 1) + FoldSize(n, k - 1)

\* val_idx of fold k: the shuffled indices of its slice
ValIdx(p, n, k) == {p[j] : j \in (FoldStart(n, k) + 1)..(FoldStart(n, k) + FoldSize(n, k))}

\* a train_preds += ... over every row instead of train_preds[train_idx] += ...
TrainIdx_All(p, n, k) == Indices(n)

\* train_idx of fold k: the indices outside the fold's test mask
TrainIdx(p, n, k) == Indices(n) \ ValIdx(p, n, k)

\* the cell is run once, on the merged feature table
\* a loop that writes the fold's predictions over its training rows
OofRows_Train(p, n, k) == TrainIdx(p, n, k)

\* the rows oof[val_idx] = ... assigns in fold k
OofRows(p, n, k) == ValIdx(p, n, k)

\* the divisor of a fold's contribution: ... / (cv.n_splits-1)
train_preds_divisor == n_splits - 1

CanRunCV == cvpc = "idle" /\ pc = "idle"

\* the cell up to the first fold: the arrays are allocated and the generator
\* cv.split is started; it raises when there are fewer rows than folds
CVBegin ==
    /\ CanRunCV
    /\ n_samples >= n_splits
    /\ \E p \in Shuffles(n_samples) : perm' = p
    /\ oof' = [i \in Indices(n_samples) |-> 0]
    /\ train_preds' = [i \in Indices(n_samples) |-> <<>>]
    /\ oof_writes' = [i \in Indices(n_samples) |-> 0]
    /\ models' = <<>>
    /\ fold_' = 1
    /\ cvpc' = "fit"
    /\ UNCHANGED n_samples
    /\ UNCHANGED <<aggVars, prev>>

CVBeginFails ==
    /\ CanRunCV
    /\ n_samples < n_splits
    /\ oof' = [i \in Indices(n_samples) |-> 0]
    /\ train_preds' = [i \in Indices(n_samples) |-> <<>>]
    /\ oof_writes' = [i \in Indices(n_samples) |-> 0]
    /\ models' = <<>>
    /\ cvpc' = "raised"
    /\ UNCHANGED <<n_samples, perm, fold_>>
    /\ UNCHANGED <<aggVars, prev>>

\* lgb_model.fit(train, eval_set=[val], early_stopping_rounds=50)
FitFold ==
    /\ cvpc = "fit"
    /\ fold_ <= n_splits
    /\ cvpc' = "oof"
    /\ UNCHANGED <<n_samples, perm, fold_, oof, train_preds, models, oof_writes>>
    /\ UNCHANGED <<aggVars, prev>>

\* an exception in the fold's training ends the run
FitFoldFails ==
    /\ cvpc = "fit"
    /\ fold_ <= n_splits
    /\ cvpc' = "raised"
    /\ UNCHANGED <<n_samples, perm, fold_, oof, train_preds, models, oof_writes>>
    /\ UNCHANGED <<aggVars, prev>>

\* oof[val_idx] = lgb_model.predict_proba(val)[:, 1]; the prediction of the
\* model of fold k is written as k
WriteOof ==
    /\ cvpc = "oof"
    /\ oof' = [i \in Indices(n_samples) |->
                 IF i \in OofRows(perm, n_samples, fold_) THEN fold_ ELSE oof[i]]
    /\ oof_writes' = [i \in Indices(n_samples) |->
                        IF i \in OofRows(perm, n_samples, fold_)
                        THEN oof_writes[i] + 1 ELSE oof_writes[i]]
    /\ cvpc' = "train_preds"
    /\ UNCHANGED <<n_samples, perm, fold_, train_preds, models>>
    /\ UNCHANGED <<aggVars, prev>>

\* train_preds[train_idx] += lgb_model.predict_proba(train)[:, 1] / (cv.n_splits-1);
\* train_preds[i] lists the folds whose model has contributed to row i
AddTrainPreds ==
    /\ cvpc = "train_preds"
    /\ train_preds' = [i \in Indices(n_samples) |->
                         IF i \in TrainIdx(perm, n_samples, fold_)
                         THEN Append(train_preds[i], fold_) ELSE train_preds[i]]
    /\ cvpc' = "append"
    /\ UNCHANGED <<n_samples, perm, fold_, oof, models, oof_writes>>
    /\ UNCHANGED <<aggVars, prev>>

\* a models.insert(0, lgb_model): the newest model goes first
AppendModel_Insert ==
    /\ cvpc = "append"
    /\ models' = <<fold_>> \o models
    /\ cvpc' = "completed"
    /\ UNCHANGED <<n_samples, perm, fold_, oof, train_preds, oof_writes>>
    /\ UNCHANGED <<aggVars, prev>>

\* models.append(lgb_model); the fold is completed (the print of line 807)
AppendModel ==
    /\ cvpc = "append"
    /\ models' = Append(models, fold_)
    /\ cvpc' = "completed"
    /\ UNCHANGED <<n_samples, perm, fold_, oof, train_preds, oof_writes>>
    /\ UNCHANGED <<aggVars, prev>>

\* the for statement takes the next item of enumerate(cv.split(...), 1): it
\* binds fold_ to the next fold, or ends the loop and leaves fold_ as it is
NextFold ==
    /\ cvpc = "completed"
    /\ fold_' = IF fold_ < n_splits THEN fold_ + 1 ELSE fold_
    /\ cvpc' = IF fold_ < n_splits THEN "fit" ELSE "done"
    /\ UNCHANGED <<n_samples, perm, oof, train_preds, models, oof_writes>>
    /\ UNCHANGED <<aggVars, prev>>

InitSpecCV ==
    /\ storage = [d \in Paths |-> <<>>]
    /\ encoded_features = None
    /\ pc = "idle"
    /\ call = NoCall
    /\ result = NoFrame
    /\ error = "none"
    /\ prev = NoPrev
    /\ cvpc = "idle"
    /\ n_samples \in 0..MaxSamples
    /\ perm = <<>>
    /\ fold_ = 0
    /\ oof = <<>>
    /\ train_preds = <<>>
    /\ models = <<>>
    /\ oof_writes = <<>>

NextCV ==
    \/ CVBegin
    \/ CVBeginFails
    \/ FitFold
    \/ FitFoldFails
    \/ WriteOof
    \/ AddTrainPreds
    \/ AppendModel
    \/ NextFold

SpecCV == InitSpecCV /\ [][NextCV]_vars

----------------------------------------------------------------------------
(* What the claims speak of, computed from the stored records themselves *)

\* the positions <<partition, row>> of the dataset
Positions(ds) == UNION {{<<p, j>> : j \in DOMAIN ds[p]} : p \in DOMAIN ds}

\* the history records of entity e
RecordsOf(ds, e) == {x \in Positions(ds) : ds[x[1]][x[2]].id = e}

\* how many history records of e have value v in column c
CountOf(ds, e, c, v) ==
    Cardinality({x \in RecordsOf(ds, e) : ds[x[1]][x[2]].f[c] = v})

\* the directory the running / last call reads
Dir == storage[call.path]

\* the partitions of the j-th batch of the running call
BatchParts(j) == ((j - 1) * call.chunk)..(j * call.chunk - 1)

\* the ids and the (column, value) pairs in a set of partitions
IdsIn(P) == UNION {IdsOf(Dir[p + 1]) : p \in P}
PairsOfRecord(r) == {<<FeatureColumns[c], r.f[c]>> : c \in DOMAIN FeatureColumns}
PairsIn(P) == UNION {PairsOfRecord(r) : r \in UNION {Range(Dir[p + 1]) : p \in P}}

\* the partitions the call has read, and what its batches held
ReadParts == Range(call.reads)
ObservedPairs == UNION {PairsIn(BatchParts(j)) : j \in 1..Len(call.frames)}

RowsWithId(fr, e) == {k \in DOMAIN fr.rows : fr.rows[k][IdCol] = e}
FeatureSum(fr, k) == SumSeq([j \in 1..(Len(fr.cols) - 1) |-> fr.rows[k][fr.cols[j + 1]]])

ReturnedFrom(mode) == pc = "returned" /\ call.mode = mode
Finishing(mode) == pc = "loop" /\ pc' = "returned" /\ call.mode = mode

----------------------------------------------------------------------------
(* Claims *)

\* C1: a transform call that returns gives a table whose columns are exactly
\* id followed by the schema the aggregator held (the fit-time schema), same
\* count and order, in every row; a (column, value) pair seen in the call's
\* batches but absent from that schema is neither a column of the table nor
\* an entry of the schema afterwards.
C1_TransformColumns ==
    [][Finishing("transform") =>
         /\ result'.cols = <<IdCol>> \o encoded_features.list
         /\ \A k \in DOMAIN result'.rows :
               DOMAIN result'.rows[k] = {IdCol} \cup Range(encoded_features.list)
         /\ \A d \in ObservedPairs \ Range(encoded_features.list) :
               /\ d \notin Range(result'.cols)
               /\ d \notin Range(encoded_features'.list)]_vars

\* a transform call returned after its batches held a pair the schema lacks
C1_Witness ==
    /\ ReturnedFrom("transform")
    /\ ObservedPairs \ Range(encoded_features.list) # {}
    /\ Len(result.rows) >= 2

\* C2: a transform call on an aggregator that was never fitted ends with the
\* not-fitted error (and with no table).
C2_NotFittedError ==
    (call.mode = "transform" /\ encoded_features.is_none /\ pc \in {"returned", "raised"})
        => (pc = "raised" /\ error = "NotFitted")

\* C3: with every entity's records in one partition, a call that returns
\* gives exactly one row to every id of the partitions it read, and no row
\* to any other id.
C3_OneRowPerId ==
    (pc = "returned" /\ EntityAligned(Dir)) =>
        /\ \A e \in IdsIn(ReadParts) : Cardinality(RowsWithId(result, e)) = 1
        /\ \A k \in DOMAIN result.rows : result.rows[k][IdCol] \in IdsIn(ReadParts)

\* a call returned after two batches, with an entity of two records
C3_Witness ==
    /\ pc = "returned"
    /\ Len(call.frames) = 2
    /\ \E e \in IdsIn(ReadParts) : Cardinality(RecordsOf(Dir, e)) = 2
    /\ Cardinality(IdsIn(ReadParts)) = 3

\* C4: in the table fit_transform returns, the value of entity e for schema
\* entry (c, v) is the number of history records of e with value v in column c.
C4_CountsRecords ==
    ReturnedFrom("fit_transform") =>
        \A k \in DOMAIN result.rows : \A d \in Range(encoded_features.list) :
            result.rows[k][d] = CountOf(Dir, result.rows[k][IdCol], d[1], d[2])

\* fit_transform returned a count of 2 and a count of 0
C4_Witness ==
    /\ ReturnedFrom("fit_transform")
    /\ \E k \in DOMAIN result.rows : \E d, d2 \in Range(encoded_features.list) :
          result.rows[k][d] = 2 /\ result.rows[k][d2] = 0

\* the toy dataset: 2 partitions, 3 entities, 2 categorical columns with 2
\* categories each, all of it processed by the call
ToyScenario ==
    /\ NumParts = 2
    /\ ReadParts = Parts
    /\ Cardinality(IdsIn(Parts)) = 3
    /\ Len(FeatureColumns) = 2
    /\ \A c \in DOMAIN FeatureColumns :
          Cardinality({d \in PairsIn(Parts) : d[1] = FeatureColumns[c]}) = 2

\* C5 as stated: on the toy dataset fit_transform returns 5 columns and every
\* row sums to the entity's number of history records.
C5_RowSumIsRecordCount ==
    (ReturnedFrom("fit_transform") /\ ToyScenario) =>
        /\ Len(result.cols) = 5
        /\ \A k \in DOMAIN result.rows :
              FeatureSum(result, k) =
                  Cardinality(RecordsOf(Dir, result.rows[k][IdCol]))

\* C5 amended: on the toy dataset fit_transform returns 5 columns and every
\* row sums to 2 times the entity's number of history records (once per
\* categorical column), the indicators of each column summing to that number.
C5_RowSumIsTwiceRecordCount ==
    (ReturnedFrom("fit_transform") /\ ToyScenario) =>
        /\ Len(result.cols) = 5
        /\ \A k \in DOMAIN result.rows :
              /\ FeatureSum(result, k) =
                    2 * Cardinality(RecordsOf(Dir, result.rows[k][IdCol]))
              /\ \A c \in DOMAIN FeatureColumns :
                    SumSeq([j \in 1..Len(encoded_features.list) |->
                              IF encoded_features.list[j][1] = FeatureColumns[c]
                              THEN result.rows[k][encoded_features.list[j]] ELSE 0])
                      = Cardinality(RecordsOf(Dir, result.rows[k][IdCol]))

\* fit_transform returned on the toy dataset, read in two batches, one entity
\* having two records
C5_Witness ==
    /\ ReturnedFrom("fit_transform")
    /\ ToyScenario
    /\ Len(call.frames) = 2
    /\ \E e \in Ids : Cardinality(RecordsOf(Dir, e)) = 2

\* C6: the schema fit_transform establishes is the union over the call's
\* batches of the (column, value) pairs of each batch, each once; the table
\* has no missing value, and an entity whose batch lacked a schema entry has
\* 0 for it.
C6_SchemaIsUnion ==
    ReturnedFrom("fit_transform") =>
        /\ Range(encoded_features.list) = ObservedPairs
        /\ Len(encoded_features.list) = Cardinality(ObservedPairs)
        /\ \A k \in DOMAIN result.rows : \A c \in DOMAIN result.rows[k] :
              result.rows[k][c] # NaN
        /\ \A j \in 1..Len(call.frames) : \A k \in DOMAIN result.rows :
              result.rows[k][IdCol] \in IdsIn(BatchParts(j)) =>
                  \A d \in Range(encoded_features.list) \ PairsIn(BatchParts(j)) :
                      result.rows[k][d] = 0

\* fit_transform returned after two batches, each with a pair the other lacks
C6_Witness ==
    /\ ReturnedFrom("fit_transform")
    /\ Len(call.frames) = 2
    /\ PairsIn(BatchParts(1)) \ PairsIn(BatchParts(2)) # {}
    /\ PairsIn(BatchParts(2)) \ PairsIn(BatchParts(1)) # {}

\* C7: in the table transform returns, a schema column whose pair was in
\* none of the call's batches is 0 for every entity.
C7_AbsentColumnsZero ==
    ReturnedFrom("transform") =>
        \A d \in Range(encoded_features.list) \ ObservedPairs :
            \A k \in DOMAIN result.rows : result.rows[k][d] = 0

\* transform returned two rows and some schema column was in none of its batches
C7_Witness ==
    /\ ReturnedFrom("transform")
    /\ Range(encoded_features.list) \ ObservedPairs # {}
    /\ Len(result.rows) >= 2

\* C8: only the step that ends a fit_transform call with a returned table
\* changes the schema; no step of a transform call, succeeding or failing,
\* does.
C8_OnlyFitChangesSchema ==
    [][(encoded_features' # encoded_features) => Finishing("fit_transform")]_vars

\* a transform call on a fitted aggregator failed after a batch that held
\* other pairs than the schema
C8_Witness ==
    /\ call.mode = "transform"
    /\ ~encoded_features.is_none
    /\ pc = "raised"
    /\ Len(call.frames) >= 1
    /\ ObservedPairs \ Range(encoded_features.list) # {}

\* C9: a transform call that returns right after a transform call of the same
\* aggregator with the same directory, chunk size and partition count has
\* returned gives the same table: same columns in the same order, same rows,
\* same values.
C9_TransformRepeats ==
    (/\ ReturnedFrom("transform")
     /\ prev.mode = "transform") => result = prev.table

\* a transform call was repeated on data that held a pair the schema lacks
\* and lacked a pair of the schema
C9_Witness ==
    /\ ReturnedFrom("transform")
    /\ prev.mode = "transform"
    /\ ObservedPairs \ Range(encoded_features.list) # {}
    /\ Range(encoded_features.list) \ ObservedPairs # {}
    /\ Len(result.rows) >= 2

\* the folds in which row i is a validation row
FoldsOf(i) == {k \in 1..n_splits : i \in ValIdx(perm, n_samples, k)}

\* C10: in a cross-validation run every row is in the validation set of
\* exactly one fold (so the validation sets cover all rows); no row ever has
\* its out-of-fold prediction written twice, and when the run is done every
\* row has had it written exactly once, by the model of its fold.
C10_OofWrittenOnce ==
    (cvpc \notin {"idle", "raised"} \/ (cvpc = "raised" /\ fold_ >= 1)) =>
        /\ \A i \in Indices(n_samples) : Cardinality(FoldsOf(i)) = 1
        /\ UNION {ValIdx(perm, n_samples, k) : k \in 1..n_splits} = Indices(n_samples)
        /\ \A i \in Indices(n_samples) : oof_writes[i] <= 1
        /\ cvpc = "done" =>
              \A i \in Indices(n_samples) :
                  oof_writes[i] = 1 /\ oof[i] \in FoldsOf(i)

\* a run over a number of rows the folds do not divide, in a shuffled order, is done
C10_Witness ==
    /\ cvpc = "done"
    /\ n_samples % n_splits # 0
    /\ \E i \in 1..n_samples : perm[i] # i - 1
    /\ Len(models) = n_splits

\* the folds whose model has added to train_preds[i], as a set
Contributions(i) == Range(train_preds[i])

\* C11: after a cross-validation run every row's train_preds is the sum of
\* exactly n_splits - 1 contributions, one from each fold that trained on the
\* row and none from the fold that held it out; each is divided by
\* n_splits - 1, so the weights of a row sum to 1. During the run no row has
\* a contribution of its own fold or two of the same fold.
C11_TrainPredsWeights ==
    (cvpc \notin {"idle", "raised"}) =>
        \A i \in Indices(n_samples) :
            /\ Contributions(i) \cap FoldsOf(i) = {}
            /\ Cardinality(Contributions(i)) = Len(train_preds[i])
            /\ cvpc = "done" =>
                  /\ Contributions(i) = (1..n_splits) \ FoldsOf(i)
                  /\ Len(train_preds[i]) = n_splits - 1
                  /\ Len(train_preds[i]) = train_preds_divisor

\* a run over folds of unequal sizes is done, every row holding contributions
C11_Witness ==
    /\ cvpc = "done"
    /\ n_samples = n_splits + 1
    /\ \A i \in Indices(n_samples) : Len(train_preds[i]) >= 1
    /\ \E i \in Indices(n_samples) : 1 \notin Contributions(i)

\* C12: a fit_transform or transform call requests no partition with index
\* >= num_parts_total and reads no partition in two batches; when it returns
\* it has read each partition 0 .. num_parts_total - 1 exactly once.
C12_ReadsEachPartitionOnce ==
    (pc \in {"loop", "returned", "raised"}) =>
        /\ \A k \in DOMAIN call.reads : call.reads[k] < call.total
        /\ Cardinality(ReadParts) = Len(call.reads)
        /\ pc = "returned" => ReadParts = 0..(call.total - 1)

\* the partitions of the first n batches of the call, batch after batch
RECURSIVE ReadsOfBatches(_)
ReadsOfBatches(n) ==
    IF n = 0 THEN <<>>
    ELSE ReadsOfBatches(n - 1) \o SortedList(BatchParts(n))

\* the starting offsets of the first n batches of the call
OffsetsOfBatches(n) == [j \in 1..n |-> (j - 1) * call.chunk]

\* C13: within a call the batches are processed in ascending order of their
\* starting offset, one at a time: whenever a batch is read, every earlier
\* batch has been aggregated and appended and, with a sink path, its
\* artifact named by its offset has been written; the step that reads a
\* batch also aggregates it, writes its artifact and appends it, before the
\* next one is read.
C13_BatchesInOrder ==
    [][/\ (pc' \in {"loop", "returned", "raised"} =>
             /\ call'.step = call'.chunk * Len(call'.frames)
             /\ call'.reads = ReadsOfBatches(Len(call.frames))'
             /\ call'.written = IF call'.sink THEN OffsetsOfBatches(Len(call.frames))'
                                ELSE <<>>)
       /\ (pc = "loop" /\ pc' = "loop" /\ call'.reads # call.reads) =>
             /\ call'.reads = call.reads \o SortedList(PartsRequested(call.step, call.chunk))
             /\ Len(call'.frames) = Len(call.frames) + 1
             /\ call'.step > call.step
             /\ call.sink => call'.written = Append(call.written, call.step)
             /\ ~call.sink => call'.written = <<>>]_vars

\* a call with a sink path returned after two batches, both artifacts written
C13_Witness ==
    /\ pc = "returned"
    /\ call.sink
    /\ Len(call.frames) = 2
    /\ call.written = <<0, 1>>
    /\ call.reads = <<0, 1>>

\* fold k has written its out-of-fold predictions / its contributions
OofOfFoldWritten(k) ==
    \A i \in ValIdx(perm, n_samples, k) : oof[i] = k /\ oof_writes[i] = 1
ContributionsOfFoldWritten(k) ==
    \A i \in TrainIdx(perm, n_samples, k) : k \in Contributions(i)
\* nothing of fold k has been written
FoldUntouched(k) ==
    /\ \A i \in ValIdx(perm, n_samples, k) : oof_writes[i] = 0
    /\ \A i \in Indices(n_samples) : k \notin Contributions(i)
    /\ k \notin Range(models)

\* the number of folds whose model is in the list
FinishedFolds == IF cvpc \in {"completed", "done"} THEN fold_ ELSE fold_ - 1

\* while a fold is in work: what the folds before it have left, and that
\* the folds after it have left nothing
FoldsInOrder ==
    cvpc \in {"fit", "oof", "train_preds", "append", "completed", "done"} =>
        /\ models = [k \in 1..FinishedFolds |-> k]
        /\ \A k \in 1..FinishedFolds :
              OofOfFoldWritten(k) /\ ContributionsOfFoldWritten(k)
        /\ \A k \in (fold_ + 1)..n_splits : FoldUntouched(k)
        /\ cvpc = "fit" => \A k \in fold_..n_splits : FoldUntouched(k)
        /\ cvpc \in {"train_preds", "append"} => OofOfFoldWritten(fold_)
        /\ cvpc = "append" => ContributionsOfFoldWritten(fold_)
        /\ cvpc = "done" => Len(models) = n_splits /\ fold_ = n_splits

\* C14: the folds of a cross-validation run are trained one after another,
\* each once: while fold fold_ is in work the models of the folds before it
\* are in the list in fold order with their out-of-fold predictions and
\* contributions written, and nothing of a later fold is written; training
\* of a fold starts only at the start of the run (fold 1) or after the model
\* of the fold before it was appended, a failed run is not resumed, and a
\* finished run holds exactly n_splits models in fold order.
C14_FoldsSequential ==
    [][/\ FoldsInOrder'
       /\ (cvpc' = "fit" /\ cvpc # "fit") =>
             \/ cvpc = "idle" /\ fold_' = 1
             \/ cvpc = "completed" /\ fold_' = fold_ + 1 /\ Len(models) = fold_
       /\ (cvpc = "fit" /\ cvpc' # "fit") =>
             fold_' = fold_ /\ cvpc' \in {"oof", "raised"}
       /\ cvpc \in {"raised", "done"} => cvpc' = cvpc]_vars

\* a run is done, five models in the list, the last fold smaller than the first
C14_Witness ==
    /\ cvpc = "done"
    /\ models = <<1, 2, 3, 4, 5>>
    /\ FoldSize(n_samples, 1) > FoldSize(n_samples, n_splits)
    /\ \A k \in 1..n_splits : OofOfFoldWritten(k) /\ ContributionsOfFoldWritten(k)

\* C15: a fit_transform call that fails leaves the schema as it was before
\* the call: no step of a fit_transform call but the one that returns its
\* table changes encoded_features (not a batch, not the step on which the
\* reader raises, not the caller taking the exception), so an unfitted
\* aggregator stays unfitted and a fitted one keeps its schema; the schema
\* goes from None to a list only on the step that ends a fit_transform call
\* with its table.
C15_FailedFitKeepsSchema ==
    [][/\ (call.mode = "fit_transform" /\ pc = "loop" /\ pc' # "returned") =>
              encoded_features' = encoded_features
       /\ (call.mode = "fit_transform" /\ pc = "raised") =>
              encoded_features' = encoded_features
       /\ (encoded_features.is_none /\ ~encoded_features'.is_none) =>
              /\ Finishing("fit_transform")
              /\ error' = "none"
              /\ Len(call.frames) >= 1]_vars

\* a fit_transform call on a fitted aggregator failed on the reader's error
\* after a batch that held a pair the schema lacks
C15_Witness ==
    /\ call.mode = "fit_transform"
    /\ pc = "raised"
    /\ error = "IOError"
    /\ Len(call.frames) >= 1
    /\ ~encoded_features.is_none
    /\ ObservedPairs \ Range(encoded_features.list) # {}

\* C16: a transform call on an aggregator that was never fitted reads no
\* partition and writes no artifact to the sink path, at any point of the
\* call up to and including its failure.
C16_UnfittedTransformTouchesNothing ==
    (call.mode = "transform" /\ encoded_features.is_none /\ pc \in {"loop", "raised"}) =>
        /\ call.reads = <<>>
        /\ call.written = <<>>
        /\ call.frames = <<>>

====
